---- MODULE Spec2Model ----
(***************************************************************************)
(* Session lifecycle and subscription management of the KIS trading        *)
(* platform.  Two clients are modelled:                                    *)
(*   vi  : VIWebSocketClient (app/strategy/vi/service.py) on top of        *)
(*         KISWebSocketClient (app/strategy/base/service/websocket.py):    *)
(*         receive loop, connection monitors, shutdown;                    *)
(*   api : KISWebSocketClient (app/kis_api/websocket.py): connect,         *)
(*         ensure_connection, _process_response, close.                    *)
(* Tasks are asyncio coroutines: a task runs without interruption up to    *)
(* its next real suspension (asyncio.sleep, or the generator's yield).     *)
(***************************************************************************)
EXTENDS Integers, Sequences, FiniteSets, TLC

VARIABLES
  now,        \* datetime.now().timestamp(), in seconds
  vi,         \* fields of the VIWebSocketClient instance
  loop,       \* subscribe_vi_data: position and locals (retry_count, last_reconnect)
  monitors,   \* _connection_monitor tasks: how many wait in sleep(10), how many inside connect()'s sleep(1)
  sig,        \* the task running shutdown(): signal handler or close()
  subs,       \* gateway side: channels acknowledged with rt_cd "0" on the current transport
  opens,      \* transport opens that failed in a row since the last successful connect (saturates at MaxOpens)
  leaked,     \* opened transports whose handle was overwritten without close()
  api,        \* fields of the KISWebSocketClient instance of app/kis_api/websocket.py
  acall,      \* the call of that client that is suspended in ensure_connection's sleep, innermost last
  aopens,     \* transport opens of that client (saturates at MaxOpens)
  strat,      \* a BaseStrategy instance, with what its last start() or stop() did
  last        \* what the last step did (observation only)

vars == <<now, vi, loop, monitors, sig, subs, opens, leaked, api, acall, aopens, strat, last>>
vvars == <<vi, loop, monitors, sig, subs, opens, leaked>>
avars == <<api, acall, aopens>>
svars == <<strat>>

----------------------------------------------------------------------------
(* Bounds of the model *)
StartTime == 1000
MaxTime == 1130
MaxMonitors == 2
MaxOpens == 4
MaxLeaked == 1
MaxHooks == 4
(* the instants the clock is read at: the coarse clock of the task model,  *)
(* the fine clock of the receive loop's trigger window                     *)
CoarsePoints == {MaxTime}
FinePoints == {StartTime + 90, StartTime + 120, MaxTime}
ApiPoints == {StartTime + 30, StartTime + 60, MaxTime}
(* the symbols of trade ticks; triggers are received for the first only *)
Symbols == {"005930", "000660"}
AnySym == "005930"
FarFuture == 9999
TokenExpiries == {StartTime + 80, FarFuture}
ApiTokenExpiries == {StartTime + 30, FarFuture}
(* the credential a kis_api client is built with: token expiry, and        *)
(* whether APPROVAL_KEY was set                                            *)
Credential(exp, key) == [exp |-> exp, key |-> key]
ApiCredentials ==
  {Credential(exp, TRUE) : exp \in ApiTokenExpiries} \cup {Credential(FarFuture, FALSE)}

(* Program constants *)
MAX_RETRY_COUNT == 3
RETRY_DELAY == 5
RECONNECT_MIN_GAP == 5
TRIGGER_WINDOW == 120
PONG_SILENCE == 30

REALTIME_TR == "H0STCNT0"
TRADE_TR == "H0STASP0"
HTS_TR == "H0STCNI0"
HTS_TR_PAPER == "H0STCNI9"

----------------------------------------------------------------------------
(* Frames.  A frame is named by an id; Raw(id) is its text, already cut    *)
(* at '|' (pipe) and, for the 4th field, at '^'.  A payload field holds    *)
(* its own 0-based position, except field 0, the symbol code.              *)

Payload(sym, n) == [i \in 1..n |-> IF i = 1 THEN sym ELSE i - 1]

FrameId(k, s) == [k |-> k, s |-> s]
NoFrame == FrameId("none", "")
RAISE == FrameId("raise", "")

Text(cls, pipe, hdr, tr_id, rt_cd, output) ==
  [cls |-> cls, pipe |-> pipe, hdr |-> hdr, tr_id |-> tr_id, rt_cd |-> rt_cd, output |-> output]

Json(hdr, tr_id, rt_cd, output) == Text("json", <<>>, hdr, tr_id, rt_cd, output)
Data(pipe) == Text("data", pipe, FALSE, "", "", "")

Raw(f) ==
  CASE f.k = "PINGPONG"     -> Text("literal", <<>>, FALSE, "", "", "")
    [] f.k = "EMPTY"        -> Text("empty", <<>>, FALSE, "", "", "")
    [] f.k = "GARBAGE"      -> Text("garbage", <<>>, FALSE, "", "", "")
    [] f.k = "JSON_PING"    -> Json(TRUE, "PINGPONG", "", "none")
    [] f.k = "JSON_NOHDR"   -> Json(FALSE, "", "", "none")
    [] f.k = "ACK_HTS"      -> Json(TRUE, HTS_TR, "0", "keyiv")
    [] f.k = "ACK_HTS_NOOUT"-> Json(TRUE, HTS_TR, "0", "none")
    [] f.k = "ERR_HTS"      -> Json(TRUE, HTS_TR, "1", "none")
    [] f.k = "ERR_HTS_OUT"  -> Json(TRUE, HTS_TR, "1", "keyiv")
    [] f.k = "ACK_VI"       -> Json(TRUE, REALTIME_TR, "0", "none")
    [] f.k = "ERR_VI"       -> Json(TRUE, REALTIME_TR, "1", "none")
    [] f.k = "ACK_TRADE"    -> Json(TRUE, TRADE_TR, "0", "none")
    [] f.k = "ERR_TRADE"    -> Json(TRUE, TRADE_TR, "1", "none")
    [] f.k = "JSON_VI"      -> Json(TRUE, REALTIME_TR, "", "vi")
    [] f.k = "VI"           -> Data(<<"0", REALTIME_TR, "001", Payload(f.s, 4)>>)
    [] f.k = "VI_SHORT"     -> Data(<<"0", REALTIME_TR, "001", Payload(f.s, 2)>>)
    [] f.k = "TRADE"        -> Data(<<"0", TRADE_TR, "001", Payload(f.s, 14)>>)
    [] f.k = "TRADE_SHORT"  -> Data(<<"0", TRADE_TR, "001", Payload(f.s, 13)>>)
    [] f.k = "UNKNOWN_TR"   -> Data(<<"1", "H0STCNX0", "001", Payload(f.s, 4)>>)
    [] f.k = "MALFORMED"    -> Data(<<"0", REALTIME_TR, "001">>)

(* What recv() may return to the receive loop *)
RecvFrames ==
  {FrameId(k, "") : k \in {"PINGPONG", "EMPTY", "JSON_PING", "ACK_TRADE", "MALFORMED"}}
  \cup {FrameId("TRADE", s) : s \in Symbols}
  \cup {FrameId(k, AnySym) : k \in {"VI", "VI_SHORT", "TRADE_SHORT", "UNKNOWN_TR"}}

(* What recv() may return right after the account-channel request of      *)
(* connect(), and right after a subscribe() request; RAISE: recv() raises  *)
ConnectReplies ==
  {FrameId(k, "") : k \in {"PINGPONG", "JSON_PING", "ACK_HTS", "ACK_HTS_NOOUT", "ERR_HTS",
                            "ERR_HTS_OUT", "ACK_VI", "ERR_VI"}}
  \cup {FrameId("TRADE", AnySym), RAISE}

SubscribeReplies ==
  {FrameId(k, "") : k \in {"PINGPONG", "JSON_PING", "JSON_NOHDR",
                            "ACK_VI", "ERR_VI", "ACK_TRADE", "ERR_TRADE"}}
  \cup {FrameId("TRADE", AnySym), RAISE}

(* What recv() may return to a call of the kis_api client *)
ApiReplies ==
  {FrameId(k, "") : k \in {"PINGPONG", "JSON_PING", "JSON_NOHDR", "ACK_HTS", "ERR_HTS",
                            "ACK_VI", "ERR_VI", "JSON_VI"}}
  \cup {FrameId("VI", AnySym), RAISE}

(* message[0] in ['0', '1'] *)
IsRealtime(m) == m.cls = "data" /\ m.pipe[1] \in {"0", "1"}
(* json.loads(message) succeeds *)
IsJson(m) == m.cls = "json"

NoEvent == [kind |-> "none", sym |-> "", a |-> -1, b |-> -1]

Event(kind, sym, a, b) == [kind |-> kind, sym |-> sym, a |-> a, b |-> b]
Chan(tr_id, tr_key) == [tr_id |-> tr_id, tr_key |-> tr_key]
Min(a, b) == IF a < b THEN a ELSE b

----------------------------------------------------------------------------
(* KISWebSocketClient of app/strategy/base/service/websocket.py.           *)
(* An operation maps a world w to the world after it:                      *)
(*   w.c         the instance's fields                                     *)
(*   w.subs, w.opens, w.leaked   as the variables                          *)
(*   w.reqs      the subscribe frames sent in this step, in order          *)
(*   w.spawn     _connection_monitor tasks created in this step            *)
(*   w.conn      "ok"/"fail" once connect() has returned in this step      *)
(*   w.ret       the operation's return value                              *)
(*   w.why       where a connect() that failed returned: "expired",        *)
(*               "no_key", "open", "reply", "torn"                         *)
(*   w.reply     the frame subscribe() last read as its reply              *)
(*   w.saved     _save_account_info() was called                           *)
(*   w.tclose    shutdown() called websocket.close()                       *)
(*   w.issuer    get_approval_key() in connect(): "none" (not called),     *)
(*               "failed" (raised), "issued" (key stored and saved),       *)
(*               "issued_unsaved" (key stored, the save raised)            *)
(*   w.keyed     the frame connect() took aes_key and aes_iv from          *)
(* websocket: "none" (None), "open" (connected), "dead" (a WebSocket       *)
(* object that is not connected: never opened, or broken; send, recv and   *)
(* ping raise on it).                                                      *)

World == [c |-> vi, subs |-> subs, opens |-> opens,
          leaked |-> leaked, reqs |-> <<>>, spawn |-> 0, conn |-> "none", ret |-> FALSE,
          why |-> "none", reply |-> NoFrame, saved |-> FALSE, tclose |-> FALSE,
          issuer |-> "none", keyed |-> NoFrame]

is_token_expired(c) == now >= c.access_token_expired

hts_channel(c) == Chan(IF c.is_live THEN HTS_TR ELSE HTS_TR_PAPER, "hts_id")

(* lines 179-249: from self.websocket = websocket.WebSocket() on.          *)
(* e.open: whether the transport opens; e.reply: what recv() returns.      *)
connect_open(w, e) ==
  LET w0 == [w EXCEPT !.leaked = IF w.c.websocket = "open" THEN Min(@ + 1, MaxLeaked) ELSE @,
                      !.opens = Min(@ + 1, MaxOpens)]
      failed(x) == [x EXCEPT !.ret = FALSE, !.conn = "fail", !.why = "reply"]
      torn(x) == [x EXCEPT !.c.websocket = "none", !.subs = {},
                           !.ret = FALSE, !.conn = "fail", !.why = "torn"]
  IN
  IF ~e.open
    THEN [w0 EXCEPT !.c.websocket = "dead", !.subs = {},
                    !.ret = FALSE, !.conn = "fail", !.why = "open"]
    ELSE
      LET w1 == [w0 EXCEPT !.c.websocket = "open",
                           !.subs = {},
                           !.reqs = Append(@, hts_channel(w.c))]
          m == Raw(e.reply)
          done(x) == [x EXCEPT !.c.last_pong = now, !.spawn = @ + 1, !.opens = 0,
                               !.ret = TRUE, !.conn = "ok"]
          acked(x) == IF IsJson(m) /\ m.rt_cd = "0"
                        THEN [x EXCEPT !.subs = @ \cup {hts_channel(w.c)}] ELSE x
      IN
      IF e.reply = RAISE THEN torn(w1)
      ELSE IF m.cls = "empty" THEN torn(w1)
      ELSE IF IsRealtime(m) THEN done(w1)
      ELSE IF ~IsJson(m) THEN torn(w1)
      ELSE IF m.hdr /\ m.tr_id \in {HTS_TR, HTS_TR_PAPER}
        THEN IF m.output = "keyiv"
               THEN done(acked([w1 EXCEPT !.c.aes_key = "key", !.c.aes_iv = "iv",
                                          !.keyed = e.reply]))
               ELSE failed(w1)
        ELSE done(acked(w1))

(* lines 81-103: save_account_info_to_env() is called; ok is whether it    *)
(* returns, and when it raises the exception is logged                     *)
_save_account_info(w, ok) == [w EXCEPT !.saved = TRUE]

(* lines 158-177 of a connect() whose token is valid and whose key is      *)
(* there, up to the sleep(1) that follows the close of the old transport   *)
connect_close_old(w, e) ==
  IF w.c.websocket # "none"
    THEN [w EXCEPT !.c.websocket = "none", !.subs = {}, !.conn = "sleep"]
    ELSE connect_open(w, e)

(* connect() to which a save that raises is fatal *)
connect_begin_save_fatal(w, e) ==
  IF is_token_expired(w.c)
    THEN [w EXCEPT !.ret = FALSE, !.conn = "fail", !.why = "expired"]
    ELSE IF w.c.approval_key THEN connect_close_old(w, e)
    ELSE IF ~e.issue \/ ~e.save
      THEN [w EXCEPT !.ret = FALSE, !.conn = "fail", !.why = "no_key",
                     !.issuer = IF e.issue THEN "issued_unsaved" ELSE "failed",
                     !.c.approval_key = e.issue]
      ELSE connect_close_old(
             _save_account_info([w EXCEPT !.c.approval_key = TRUE, !.issuer = "issued"],
                                e.save), e)

(* lines 153-177: up to the sleep(1) that follows the close of the old     *)
(* transport.  w.conn = "sleep" when connect() is suspended there.         *)
connect_begin(w, e) ==
  IF is_token_expired(w.c)
    THEN [w EXCEPT !.ret = FALSE, !.conn = "fail", !.why = "expired"]
    ELSE IF w.c.approval_key THEN connect_close_old(w, e)
    ELSE IF ~e.issue
      THEN [w EXCEPT !.ret = FALSE, !.conn = "fail", !.why = "no_key", !.issuer = "failed"]
      ELSE connect_close_old(
             _save_account_info(
               [w EXCEPT !.c.approval_key = TRUE,
                         !.issuer = IF e.save THEN "issued" ELSE "issued_unsaved"],
               e.save), e)

(* lines 251-293 *)
subscribe(w, tr_id, tr_key, r) ==
  LET ch == Chan(tr_id, tr_key)
      m == Raw(r)
  IN
  IF w.c.websocket = "none" \/ is_token_expired(w.c) THEN [w EXCEPT !.ret = FALSE]
  ELSE IF w.c.websocket = "dead" THEN [w EXCEPT !.ret = FALSE]
  ELSE
    LET w1 == [w EXCEPT !.reqs = Append(@, ch), !.reply = r] IN
    IF r = RAISE THEN [w1 EXCEPT !.c.websocket = "dead", !.ret = FALSE]
    ELSE IF m.cls = "literal" THEN [w1 EXCEPT !.c.last_pong = now, !.ret = TRUE]
    ELSE IF ~IsJson(m) THEN [w1 EXCEPT !.ret = FALSE]
    ELSE IF m.hdr
      THEN IF m.rt_cd = "1"
             THEN [w1 EXCEPT !.ret = FALSE]
             ELSE [w1 EXCEPT !.ret = TRUE,
                             !.subs = IF m.rt_cd = "0" THEN @ \cup {ch} ELSE @]
      ELSE [w1 EXCEPT !.ret = FALSE]

(* shutdown() that also empties vi_triggered_stocks *)
shutdown_clearing(w) ==
  IF ~w.c.closed
    THEN [w EXCEPT !.c.closed = TRUE, !.c.shutdown_event = TRUE, !.c.websocket = "none",
                   !.c.vi_triggered_stocks = [x \in {} |-> 0], !.subs = {}, !.ret = TRUE]
    ELSE [w EXCEPT !.c.vi_triggered_stocks = [x \in {} |-> 0], !.ret = FALSE]

(* lines 59-79, up to its sleep(1) *)
shutdown(w) ==
  IF ~w.c.closed
    THEN [w EXCEPT !.c.closed = TRUE, !.c.shutdown_event = TRUE, !.c.websocket = "none",
                   !.subs = {}, !.saved = TRUE, !.tclose = w.c.websocket # "none",
                   !.ret = TRUE]
    ELSE [w EXCEPT !.ret = FALSE]

(* lines 115-127 *)
check_connection(c) ==
  IF c.websocket = "none" THEN FALSE
  ELSE IF now - c.last_pong > PONG_SILENCE THEN c.websocket = "open"
  ELSE TRUE

----------------------------------------------------------------------------
(* VIWebSocketClient of app/strategy/vi/service.py *)

_subscribe_vi(w, r) ==
  IF w.c.websocket = "none" \/ is_token_expired(w.c)
    THEN [w EXCEPT !.ret = FALSE]
    ELSE subscribe(w, REALTIME_TR, "", r)

(* a trade subscription whose failure takes the symbol's entry back *)
_subscribe_realtime_trade_strict(w, stock_code, r) ==
  LET x == IF w.c.websocket = "none" \/ is_token_expired(w.c)
             THEN [w EXCEPT !.ret = FALSE]
             ELSE subscribe(w, TRADE_TR, stock_code, r)
  IN IF x.ret THEN x
     ELSE [x EXCEPT !.c.vi_triggered_stocks = [y \in DOMAIN @ \ {stock_code} |-> @[y]]]

_subscribe_realtime_trade(w, stock_code, r) ==
  IF w.c.websocket = "none" \/ is_token_expired(w.c)
    THEN [w EXCEPT !.ret = FALSE]
    ELSE subscribe(w, TRADE_TR, stock_code, r)

(* a parser that makes do with two fields *)
_parse_vi_data_lenient(data) ==
  IF Len(data) >= 2 THEN Event("vi", data[1], data[2], 0) ELSE NoEvent

(* _parse_vi_data / _parse_trade_data: the dict, or NoEvent when an index  *)
(* is out of range (IndexError)                                            *)
_parse_vi_data(data) ==
  IF Len(data) >= 3 THEN Event("vi", data[1], data[2], data[3]) ELSE NoEvent

(* a parser that takes the price and the volume one field early *)
_parse_trade_data_shifted(data) ==
  IF Len(data) >= 14 THEN Event("trade", data[1], data[2], data[13]) ELSE NoEvent

_parse_trade_data(data) ==
  IF Len(data) >= 14 THEN Event("trade", data[1], data[3], data[14]) ELSE NoEvent

Remove(f, k) == [x \in DOMAIN f \ {k} |-> f[x]]
Put(f, k, v) == [x \in DOMAIN f \cup {k} |-> IF x = k THEN v ELSE f[x]]


----------------------------------------------------------------------------
(* KISWebSocketClient of app/kis_api/websocket.py.                         *)
(* An operation maps a world w to the world after it:                      *)
(*   w.c       the instance's fields                                       *)
(*   w.opens   as aopens                                                   *)
(*   w.st      "run", or "sleep" when the operation is suspended in        *)
(*             ensure_connection's sleep(_reconnect_delay)                 *)
(*   w.ret     the return value; w.data the payload returned with it:      *)
(*             "none" (None), "empty" ({}), or the output's name           *)
(*   w.reqs    the subscribe frames sent, in order                         *)
(*   w.guarded a connect() returned at its is-connecting guard             *)
(*   w.rcvd    the frame last given to _process_response                   *)
(*   w.tclose  close() called websocket.close()                            *)

_max_reconnect_attempts == 3
_ping_interval == 60
_ping_timeout == 60

ApiOps == {"connect", "check_connection", "subscribe_vi_stock", "receive_vi_stock"}

ApiWorld == [c |-> api, opens |-> aopens, st |-> "run", ret |-> FALSE, data |-> "none",
             reqs |-> <<>>, conn |-> "none", guarded |-> FALSE, rcvd |-> NoFrame,
             tclose |-> FALSE]

(* close() that also resets the reconnect-attempt counter *)
close_resetting(w) ==
  IF ~w.c._closed
    THEN [w EXCEPT !.c._closed = TRUE, !.c._is_subscribed = FALSE, !.c.websocket = "none",
                   !.c._reconnect_attempts = 0, !.tclose = @ \/ w.c.websocket # "none"]
    ELSE w

(* close() without its test of _closed *)
close_unguarded(w) ==
  [w EXCEPT !.c._closed = TRUE, !.c._is_subscribed = FALSE, !.c.websocket = "none",
            !.tclose = @ \/ w.c.websocket # "none"]

(* lines 231-243 *)
close(w) ==
  IF ~w.c._closed
    THEN [w EXCEPT !.c._closed = TRUE, !.c._is_subscribed = FALSE, !.c.websocket = "none",
                   !.tclose = @ \/ w.c.websocket # "none"]
    ELSE w

(* lines 129-181, on the text m of the frame *)
process_text(c, m) ==
  LET res(c1, ok, data) == [c |-> c1, ok |-> ok, data |-> data]
      output == IF m.output = "none" THEN "empty" ELSE m.output
  IN
  IF IsJson(m) /\ m.hdr /\ m.tr_id = "PINGPONG" THEN res([c EXCEPT !._last_pong = now], TRUE, "none")
  ELSE IF m.cls = "empty" THEN res(c, FALSE, "none")
  ELSE IF IsRealtime(m) THEN res(c, TRUE, "none")
  ELSE IF ~IsJson(m) THEN res(c, FALSE, "none")
  ELSE IF m.hdr /\ m.tr_id = "H0STCNT0" THEN res(c, TRUE, output)
  ELSE IF m.rt_cd = "1" THEN res(c, FALSE, "none")
  ELSE IF m.rt_cd = "0"
    THEN IF m.hdr /\ m.tr_id \in {"K0STCNI0", "K0STCNI9", "H0STCNI0", "H0STCNI9"}
           THEN res([c EXCEPT !._aes_key = IF m.output = "keyiv" THEN "key" ELSE "none",
                              !._aes_iv = IF m.output = "keyiv" THEN "iv" ELSE "none"], TRUE, output)
           ELSE res(c, TRUE, output)
  ELSE res(c, FALSE, "none")

(* lines 119-181: the fields after it, the success flag and the payload *)
_process_response(c, r) == process_text(c, Raw(r))

(* the branch that reconnects, with a give-up that resets the counter *)
reconnect_or_reset(w) ==
  IF w.c._reconnect_attempts < _max_reconnect_attempts
    THEN [w EXCEPT !.c._reconnect_attempts = @ + 1, !.st = "sleep"]
    ELSE [w EXCEPT !.c._reconnect_attempts = 0, !.ret = FALSE]

(* lines 87-95: the branch that reconnects, up to its sleep *)
reconnect_or_give_up(w) ==
  IF w.c._reconnect_attempts < _max_reconnect_attempts
    THEN [w EXCEPT !.c._reconnect_attempts = @ + 1, !.st = "sleep"]
    ELSE [w EXCEPT !.ret = FALSE]

(* lines 104-108, 112-115 *)
connection_down(w) ==
  reconnect_or_give_up([w EXCEPT !.c._closed = TRUE, !.c._is_subscribed = FALSE])

(* ensure_connection() without the test of lines 111-115 *)
ensure_connection_no_timeout(w) ==
  IF w.c.websocket = "none" \/ w.c._closed THEN reconnect_or_give_up(w)
  ELSE IF now - w.c._last_ping >= _ping_interval
    THEN IF w.c.websocket = "dead" THEN connection_down(w)
         ELSE [w EXCEPT !.c._last_ping = now, !.ret = TRUE]
    ELSE [w EXCEPT !.ret = TRUE]

(* lines 85-117, up to the sleep *)
ensure_connection(w) ==
  IF w.c.websocket = "none" \/ w.c._closed THEN reconnect_or_give_up(w)
  ELSE IF now - w.c._last_ping >= _ping_interval
    THEN IF w.c.websocket = "dead" THEN connection_down(w)
         ELSE IF now - w.c._last_pong >= _ping_timeout
           THEN connection_down([w EXCEPT !.c._last_ping = now])
           ELSE [w EXCEPT !.c._last_ping = now, !.ret = TRUE]
    ELSE IF now - w.c._last_pong >= _ping_timeout THEN connection_down(w)
         ELSE [w EXCEPT !.ret = TRUE]

(* the reply is processed: lines 210-216, 276-282 *)
replied(w, p) == [w EXCEPT !.c = p.c, !.ret = p.ok]

(* the except clause of a request: lines 218-221, 284-288 *)
request_raised(w, unsub) ==
  [w EXCEPT !.c._closed = TRUE, !.c._is_subscribed = IF unsub THEN FALSE ELSE @, !.ret = FALSE]

(* a request is sent and its reply processed, as lines 206-216, 272-282;   *)
(* ok: what ensure_connection returned; unsub: whether the except clause   *)
(* clears _is_subscribed                                                   *)
request(w, ok, ch, r, unsub) ==
  IF ~ok THEN [w EXCEPT !.ret = FALSE]
  ELSE IF w.c.websocket # "open" THEN request_raised(w, unsub)
  ELSE IF r = RAISE
    THEN request_raised([w EXCEPT !.reqs = Append(@, ch), !.c.websocket = "dead"], unsub)
    ELSE replied([w EXCEPT !.reqs = Append(@, ch), !.rcvd = r], _process_response(w.c, r))

(* lines 183-221, after ensure_connection *)
_subscribe_hts(w, ok, r) == request(w, ok, hts_channel(w.c), r, FALSE)

(* lines 245-288, after ensure_connection *)
subscribe_vi_stock(w, ok, r) == request(w, ok, Chan(REALTIME_TR, "0001"), r, TRUE)

(* lines 308-325: the dict returned is w.data *)
received(w, p) ==
  [w EXCEPT !.c = p.c, !.ret = p.ok /\ p.data = "vi",
            !.data = IF p.ok /\ p.data = "vi" THEN "vi" ELSE "empty"]

(* lines 290-332, after ensure_connection *)
receive_vi_stock(w, ok, r) ==
  IF ~ok \/ w.c.websocket # "open" THEN [w EXCEPT !.ret = FALSE, !.data = "empty"]
  ELSE IF r = RAISE THEN [w EXCEPT !.c.websocket = "dead", !.ret = FALSE, !.data = "empty"]
  ELSE received([w EXCEPT !.rcvd = r], _process_response(w.c, r))

(* lines 65-72, 82-83: connect() once _subscribe_hts has returned *)
connect_end(w) ==
  IF w.ret
    THEN [w EXCEPT !.c._reconnect_attempts = 0, !.c._closed = FALSE, !.c._is_subscribed = TRUE,
                   !.c._is_connecting = FALSE, !.conn = "ok"]
    ELSE [w EXCEPT !.c._closed = TRUE, !.c._is_connecting = FALSE, !.conn = "fail"]

(* what the caller op does once its ensure_connection has returned ok *)
after_ensure(op, w, ok, r) ==
  CASE op = "connect" -> connect_end(_subscribe_hts(w, ok, r))
    [] op = "check_connection" -> [w EXCEPT !.ret = ok]
    [] op = "subscribe_vi_stock" -> subscribe_vi_stock(w, ok, r)
    [] op = "receive_vi_stock" -> receive_vi_stock(w, ok, r)

(* lines 45-83: connect() past its guard, up to completion or to the sleep *)
(* of the ensure_connection that _subscribe_hts awaits                     *)
hts_awaited(w, r) ==
  IF w.st = "sleep" THEN w ELSE after_ensure("connect", w, w.ret, r)

connect_body(w, e) ==
  LET w1 == [w EXCEPT !.c._is_connecting = TRUE]
      w2 == IF w.c.websocket # "none" THEN close(w1) ELSE w1
      w3 == [w2 EXCEPT !.opens = Min(@ + 1, MaxOpens)]
  IN
  IF ~e.open
    THEN [w3 EXCEPT !.c.websocket = "none", !.c._closed = TRUE, !.c._is_subscribed = FALSE,
                    !.c._is_connecting = FALSE, !.ret = FALSE, !.conn = "fail"]
    ELSE hts_awaited(ensure_connection([w3 EXCEPT !.c.websocket = "open"]), e.reply)

(* connect() without lines 42-43 *)
connect_unguarded(w, e) == connect_body(w, e)

(* lines 40-83 *)
connect(w, e) ==
  IF w.c._is_connecting
    THEN [w EXCEPT !.ret = FALSE, !.guarded = TRUE]
    ELSE connect_body(w, e)

(* the frames of acall return one after the other: the innermost waits    *)
(* for ensure_connection, which returned ok; a connect() that returns      *)
(* gives its result to the ensure_connection that awaited it               *)
RECURSIVE unwind(_, _, _)
unwind(stack, w, r) ==
  IF stack = <<>> THEN w
  ELSE unwind(SubSeq(stack, 1, Len(stack) - 1), after_ensure(stack[Len(stack)], w, w.ret, r), r)

----------------------------------------------------------------------------
(* BaseStrategy of app/strategy/base/base_strategy.py and of               *)
(* app/strategy/base/strategy.py: the lifecycle driver start()/stop()      *)
(* around the hooks initialize() and cleanup() of the subclass.            *)
(* An operation maps a world w to the world after it:                      *)
(*   w.s       the instance's fields; driver names the file of the class;  *)
(*             start_time is "none" (None), "aware" (a datetime with       *)
(*             tzinfo) or "naive" (one without)                            *)
(*   w.calls   the hooks called, in order                                  *)
(*   w.raised  the operation raised                                        *)
(* ok: whether the hook that is awaited returns (it raises otherwise).     *)

Drivers == {"base_strategy", "strategy"}

(* __init__: base_strategy.py 16-27, strategy.py 11-15 *)
NewStrategy(driver) ==
  [driver |-> driver, is_running |-> FALSE,
   start_time |-> IF driver = "base_strategy" THEN "aware" ELSE "none",
   running_time |-> FALSE]

StratWorld(s) == [s |-> s, calls |-> <<>>, raised |-> FALSE]

(* start() that marks the strategy running before it initializes *)
start_eager(w, ok) ==
  IF w.s.is_running THEN w
  ELSE LET w1 == [w EXCEPT !.s.is_running = TRUE, !.calls = Append(@, "initialize")] IN
       IF ok THEN [w1 EXCEPT !.s.start_time = "naive"] ELSE [w1 EXCEPT !.raised = TRUE]

(* base_strategy.py 55-68, strategy.py 40-53 *)
start(w, ok) ==
  IF w.s.is_running THEN w
  ELSE LET w1 == [w EXCEPT !.calls = Append(@, "initialize")] IN
       IF ok THEN [w1 EXCEPT !.s.start_time = "naive", !.s.is_running = TRUE]
             ELSE [w1 EXCEPT !.raised = TRUE]

(* base_strategy.py 70-82: datetime.now(timezone(...)) - self.start_time   *)
(* raises TypeError unless start_time is aware                             *)
stop_base_strategy(w, ok) ==
  IF ~w.s.is_running THEN w
  ELSE LET w1 == [w EXCEPT !.s.is_running = FALSE] IN
       IF w.s.start_time # "aware" THEN [w1 EXCEPT !.raised = TRUE]
       ELSE LET w2 == [w1 EXCEPT !.s.running_time = TRUE, !.calls = Append(@, "cleanup")] IN
            IF ok THEN w2 ELSE [w2 EXCEPT !.raised = TRUE]

(* strategy.py 55-67 *)
stop_strategy(w, ok) ==
  IF ~w.s.is_running THEN w
  ELSE LET w1 == [w EXCEPT !.calls = Append(@, "cleanup")] IN
       IF ok THEN [w1 EXCEPT !.s.is_running = FALSE] ELSE [w1 EXCEPT !.raised = TRUE]

stop(w, ok) ==
  IF w.s.driver = "base_strategy" THEN stop_base_strategy(w, ok) ELSE stop_strategy(w, ok)

(* the instance, what the last call was and did, and the hooks called so far *)
Observed(op, was, w, inits, cleanups) ==
  [s |-> w.s, op |-> op, was_running |-> was.is_running, calls |-> w.calls,
   raised |-> w.raised,
   inits |-> inits + (IF w.calls = <<"initialize">> THEN 1 ELSE 0),
   cleanups |-> cleanups + (IF w.calls = <<"cleanup">> THEN 1 ELSE 0)]

----------------------------------------------------------------------------
(* The tasks of the VI client *)

Last(task, op, frame, w, yielded, removed) ==
  [task |-> task, op |-> op, frame |-> frame, conn |-> w.conn, ret |-> w.ret,
   reqs |-> w.reqs, yielded |-> yielded, removed |-> removed, data |-> "none", guarded |-> FALSE,
   why |-> w.why, reply |-> w.reply, tclose |-> w.tclose, issuer |-> w.issuer,
   keyed |-> w.keyed]

EnvLast(op) ==
  [task |-> "env", op |-> op, frame |-> NoFrame, conn |-> "none", ret |-> FALSE,
   reqs |-> <<>>, yielded |-> NoEvent, removed |-> {}, data |-> "none", guarded |-> FALSE,
   why |-> "none", reply |-> NoFrame, tclose |-> FALSE, issuer |-> "none",
   keyed |-> NoFrame]

(* the world after a step becomes the state *)
Commit(w) ==
  /\ vi' = w.c
  /\ subs' = w.subs
  /\ opens' = w.opens
  /\ leaked' = w.leaked

(* asyncio.create_task(self._connection_monitor()): the new tasks wait to be scheduled *)
Spawned(m, w) == [m EXCEPT !.ready = Min(@ + w.spawn, MaxMonitors - m.conn)]

EventLoopRuns == sig.pc # "stopped"
(* the receive loop runs from one suspension to the next; nothing else runs meanwhile *)
LoopSuspended == loop.pc # "run"
LoopRunnable == EventLoopRuns /\ loop.pc \in {"run", "ready"}

(* the environment's answers to one connect(): key issuance, transport   *)
(* open, reply to the account-channel request; only the answers that are  *)
(* asked for vary                                                          *)
ConnectEnv(c, opening) ==
  {e \in [issue : BOOLEAN, save : BOOLEAN, open : BOOLEAN, reply : ConnectReplies] :
     /\ (opening \/ c.approval_key \/ is_token_expired(c)) => e.issue
     /\ (opening \/ c.approval_key \/ is_token_expired(c) \/ ~e.issue) => e.save
     /\ (~opening /\ (is_token_expired(c) \/ ~e.issue \/ c.websocket # "none")) => e.open
     /\ ~e.open => e.reply = RAISE
     /\ (~opening /\ (is_token_expired(c) \/ ~e.issue \/ c.websocket # "none")) => e.reply = RAISE}
NoEnv == [issue |-> TRUE, save |-> TRUE, open |-> TRUE, reply |-> RAISE]

InitWith(expiries, keys, api_credentials, drivers) ==
  /\ now = StartTime
  /\ \E d \in drivers :
       strat = Observed("none", NewStrategy(d), StratWorld(NewStrategy(d)), 0, 0)
  /\ \E exp \in expiries, key \in keys, cred \in api_credentials :
       /\ vi = [websocket |-> "none", closed |-> FALSE, shutdown_event |-> FALSE,
                last_pong |-> StartTime, aes_key |-> "none", aes_iv |-> "none",
                approval_key |-> key, access_token_expired |-> exp, is_live |-> TRUE,
                vi_triggered_stocks |-> [x \in {} |-> 0]]
       /\ api = [websocket |-> "none", _closed |-> FALSE, _last_pong |-> StartTime,
                 _reconnect_attempts |-> 0, _is_connecting |-> FALSE, _aes_key |-> "none",
                 _aes_iv |-> "none", _last_ping |-> StartTime, _is_subscribed |-> FALSE,
                 is_live |-> TRUE, approval_key |-> cred.key,
                 access_token_expired |-> cred.exp]
  /\ loop = [pc |-> "ready", retry_count |-> 0, last_reconnect |-> 0]
  /\ monitors = [ready |-> 0, conn |-> 0]
  /\ sig = [pc |-> "armed", via |-> "none"]
  /\ subs = {}
  /\ opens = 0
  /\ leaked = 0
  /\ acall = <<>>
  /\ aopens = 0
  /\ last = EnvLast("init")

InitVI == InitWith(TokenExpiries, BOOLEAN, {Credential(FarFuture, TRUE)}, {"base_strategy"})
(* the credential is valid and its approval key issued *)
InitTrack == InitWith({FarFuture}, {TRUE}, {Credential(FarFuture, TRUE)}, {"base_strategy"})
(* the kis_api client is built with any of the credentials *)
InitApi == InitWith({FarFuture}, {TRUE}, ApiCredentials, {"base_strategy"})
(* a strategy of either class *)
InitStrategy == InitWith({FarFuture}, {TRUE}, {Credential(FarFuture, TRUE)}, Drivers)

(* service.py 61-65, 74-76, 147: the loop ends and shutdown() is awaited *)
LoopBreak ==
  /\ LoopRunnable
  /\ \/ vi.closed
     \/ vi.shutdown_event
     \/ /\ vi.websocket = "none"
        /\ now - loop.last_reconnect >= RECONNECT_MIN_GAP
        /\ loop.retry_count >= MAX_RETRY_COUNT
  /\ LET w == shutdown(World) IN
       /\ Commit(w)
       /\ loop' = [loop EXCEPT !.pc = IF w.ret THEN "shutdown_sleep" ELSE "done"]
       /\ last' = Last("loop", "break", NoFrame, w, NoEvent, {})
  /\ UNCHANGED <<now, monitors, sig>>
  /\ UNCHANGED <<avars, svars>>

(* shutdown()'s sleep(1) is over: the generator is exhausted *)
LoopEnd ==
  /\ EventLoopRuns
  /\ loop.pc = "shutdown_sleep"
  /\ loop' = [loop EXCEPT !.pc = "done"]
  /\ last' = EnvLast("loop_end")
  /\ UNCHANGED <<now, vi, monitors, sig, subs, opens, leaked>>
  /\ UNCHANGED <<avars, svars>>

(* service.py 95: the sleep(1) that follows a recv() that raised is over.   *)
(* service.py 87: sleep(RETRY_DELAY) is over.  RETRY_DELAY seconds or more  *)
(* have passed since current_time was read, less than the clock resolves:  *)
(* last_reconnect is kept as that much before the clock's reading.         *)
LoopWake ==
  /\ EventLoopRuns
  /\ loop.pc \in {"sleep_retry", "sleep_error"}
  /\ loop' = [loop EXCEPT !.pc = "ready",
                          !.last_reconnect = IF loop.pc = "sleep_retry" /\ now - @ < RETRY_DELAY
                                               THEN now - RETRY_DELAY ELSE @]
  /\ last' = EnvLast("loop_wake")
  /\ UNCHANGED <<now, vi, monitors, sig, subs, opens, leaked>>
  /\ UNCHANGED <<avars, svars>>

(* service.py 67-88: no transport handle *)
LoopConnectWith(envs) ==
  /\ LoopRunnable
  /\ ~vi.closed /\ ~vi.shutdown_event
  /\ vi.websocket = "none"
  /\ \E e \in envs :
     \E r \in (IF connect_begin(World, e).ret THEN SubscribeReplies ELSE {RAISE}) :
       IF now - loop.last_reconnect < RECONNECT_MIN_GAP
         THEN /\ loop' = [loop EXCEPT !.pc = "ready"]
              /\ last' = Last("loop", "throttle", NoFrame, World, NoEvent, {})
              /\ UNCHANGED <<vi, monitors, subs, opens, leaked>>
         ELSE
           /\ loop.retry_count < MAX_RETRY_COUNT
           /\ LET w1 == connect_begin(World, e)
                  w2 == IF w1.ret THEN _subscribe_vi(w1, r) ELSE w1
              IN
              /\ Commit(w2)
              /\ monitors' = Spawned(monitors, w2)
              /\ loop' = IF w1.ret
                           THEN [loop EXCEPT !.pc = "run", !.retry_count = 0]
                           ELSE [loop EXCEPT !.pc = "sleep_retry",
                                             !.retry_count = @ + 1,
                                             !.last_reconnect = now]
              /\ last' = Last("loop", "connect", NoFrame, w2, NoEvent, {})
  /\ UNCHANGED <<now, sig>>
  /\ UNCHANGED <<avars, svars>>

LoopConnect == LoopConnectWith(ConnectEnv(vi, FALSE))

(* every transport open fails *)
LoopConnectFailing == LoopConnectWith({e \in ConnectEnv(vi, FALSE) : ~e.open})

(* service.py 129-130: elapsed_time > 120, inclusive *)
expired_inclusive(ts) == now - ts >= TRIGGER_WINDOW

(* service.py 129-130: elapsed_time > 120 *)
expired(ts) == now - ts > TRIGGER_WINDOW

(* service.py 111-137: the frame has its 4 fields.                         *)
(* The result: the world, the event to yield and the symbols removed.      *)
dispatch(w, recvstr, r) ==
  LET tr_id == recvstr[2]
      none == [w |-> w, data |-> NoEvent, removed |-> {}]
      vi_data == _parse_vi_data(recvstr[4])
      trade_data == _parse_trade_data(recvstr[4])
      stocks == w.c.vi_triggered_stocks
  IN
  IF tr_id = REALTIME_TR
    THEN IF vi_data = NoEvent THEN none
         ELSE [w |-> _subscribe_realtime_trade(
                       [w EXCEPT !.c.vi_triggered_stocks = Put(@, vi_data.sym, now)],
                       vi_data.sym, r),
               data |-> vi_data, removed |-> {}]
  ELSE IF tr_id = TRADE_TR
    THEN IF trade_data = NoEvent THEN none
         ELSE IF trade_data.sym \in DOMAIN stocks /\ expired(stocks[trade_data.sym])
           THEN [w |-> [w EXCEPT !.c.vi_triggered_stocks = Remove(@, trade_data.sym)],
                 data |-> trade_data, removed |-> {trade_data.sym}]
           ELSE [w |-> w, data |-> trade_data, removed |-> {}]
  ELSE none

(* a short frame drops the transport handle *)
handle_realtime_drop(w, m, r) ==
  IF Len(m.pipe) < 4
    THEN [w |-> [w EXCEPT !.c.websocket = "none"], data |-> NoEvent, removed |-> {}]
    ELSE dispatch(w, m.pipe, r)

(* service.py 105-137: a frame whose first character is '0' or '1' *)
handle_realtime(w, m, r) ==
  IF Len(m.pipe) < 4
    THEN [w |-> w, data |-> NoEvent, removed |-> {}]
    ELSE dispatch(w, m.pipe, r)

(* service.py 90-137: one recv() and the handling of what it returned *)
LoopRecv ==
  /\ LoopRunnable
  /\ ~vi.closed /\ ~vi.shutdown_event
  /\ vi.websocket # "none"
  /\ \E f \in (IF vi.websocket = "dead" THEN {RAISE} ELSE RecvFrames \cup {RAISE}) :
     \E r \in (IF f.k = "VI" THEN SubscribeReplies ELSE {RAISE}) :
       LET raised == vi.websocket = "dead" \/ f = RAISE
           m == Raw(f)
       IN
       IF raised
         THEN /\ vi' = [vi EXCEPT !.websocket = "dead"]
              /\ loop' = [loop EXCEPT !.pc = "sleep_error"]
              /\ last' = Last("loop", "recv_error", NoFrame, World, NoEvent, {})
              /\ UNCHANGED <<subs, opens, leaked>>
       ELSE IF m.cls = "literal"
         THEN /\ vi' = [vi EXCEPT !.last_pong = now]
              /\ loop' = [loop EXCEPT !.pc = "run"]
              /\ last' = Last("loop", "recv", f, World, NoEvent, {})
              /\ UNCHANGED <<subs, opens, leaked>>
       ELSE IF m.cls = "empty"
         THEN /\ loop' = [loop EXCEPT !.pc = "ready"]
              /\ last' = Last("loop", "recv", f, World, NoEvent, {})
              /\ UNCHANGED <<vi, subs, opens, leaked>>
       ELSE IF IsRealtime(m)
         THEN LET h == handle_realtime(World, m, r) IN
              /\ Commit(h.w)
              /\ loop' = [loop EXCEPT !.pc = IF h.data # NoEvent THEN "ready" ELSE "run"]
              /\ last' = Last("loop", "recv", f, h.w, h.data, h.removed)
         ELSE /\ loop' = [loop EXCEPT !.pc = "run"]
              /\ last' = Last("loop", "recv", f, World, NoEvent, {})
              /\ UNCHANGED <<vi, subs, opens, leaked>>
  /\ UNCHANGED <<now, monitors, sig>>
  /\ UNCHANGED <<avars, svars>>

(* websocket.py 129-149: one round of a monitor, up to its next sleep *)
MonitorRound ==
  /\ EventLoopRuns /\ LoopSuspended
  /\ monitors.ready > 0
  /\ \E e \in (IF vi.closed \/ vi.shutdown_event \/ check_connection(vi)
                 THEN {NoEnv} ELSE ConnectEnv(vi, FALSE)) :
       IF vi.closed \/ vi.shutdown_event
         THEN /\ monitors' = [monitors EXCEPT !.ready = @ - 1]
              /\ last' = Last("monitor", "exit", NoFrame, World, NoEvent, {})
              /\ UNCHANGED <<vi, subs, opens, leaked>>
       ELSE IF check_connection(vi)
         THEN /\ last' = Last("monitor", "check", NoFrame, World, NoEvent, {})
              /\ UNCHANGED <<vi, monitors, subs, opens, leaked>>
         ELSE LET w == connect_begin(World, e) IN
              /\ Commit(w)
              /\ monitors' = IF w.conn = "sleep"
                               THEN [monitors EXCEPT !.ready = @ - 1, !.conn = @ + 1]
                               ELSE Spawned(monitors, w)
              /\ last' = Last("monitor", "connect", NoFrame, w, NoEvent, {})
  /\ UNCHANGED <<now, loop, sig>>
  /\ UNCHANGED <<avars, svars>>

(* websocket.py 177-249: a monitor's connect() goes on after its sleep(1) *)
MonitorConnectResume ==
  /\ EventLoopRuns /\ LoopSuspended
  /\ monitors.conn > 0
  /\ \E e \in ConnectEnv(vi, TRUE) :
       LET w == connect_open(World, e) IN
       /\ Commit(w)
       /\ monitors' = Spawned([monitors EXCEPT !.conn = @ - 1, !.ready = @ + 1], w)
       /\ last' = Last("monitor", "connect", NoFrame, w, NoEvent, {})
  /\ UNCHANGED <<now, loop, sig>>
  /\ UNCHANGED <<avars, svars>>

(* websocket.py 52-57, 295-301: shutdown() from the signal handler or from close() *)
Shutdown ==
  /\ EventLoopRuns /\ LoopSuspended
  /\ sig.pc = "armed"
  /\ \E via \in {"signal", "close"} :
       LET w == shutdown(World) IN
       /\ Commit(w)
       /\ sig' = [pc |-> IF w.ret THEN "sleep" ELSE IF via = "signal" THEN "stopped" ELSE "done",
                  via |-> via]
       /\ last' = Last("shutdown", "shutdown", NoFrame, w, NoEvent, {})
  /\ UNCHANGED <<now, loop, monitors>>
  /\ UNCHANGED <<avars, svars>>

(* shutdown()'s sleep(1) is over; the signal handler then stops the event loop *)
ShutdownEnd ==
  /\ EventLoopRuns /\ LoopSuspended
  /\ sig.pc = "sleep"
  /\ sig' = [sig EXCEPT !.pc = IF sig.via = "signal" THEN "stopped" ELSE "done"]
  /\ last' = EnvLast("shutdown_end")
  /\ UNCHANGED <<now, vi, loop, monitors, subs, opens, leaked>>
  /\ UNCHANGED <<avars, svars>>

(* time passes *)
Advance(points) ==
  /\ \E t \in points :
       /\ t > now
       /\ now' = t
  /\ last' = EnvLast("tick")
  /\ UNCHANGED <<vi, loop, monitors, sig, subs, opens, leaked>>
  /\ UNCHANGED <<avars, svars>>

Tick == Advance(CoarsePoints)
TickFine == Advance(FinePoints)

(* the connection is lost *)
Break ==
  /\ vi.websocket = "open"
  /\ vi' = [vi EXCEPT !.websocket = "dead"]
  /\ last' = EnvLast("break")
  /\ UNCHANGED <<now, loop, monitors, sig, subs, opens, leaked>>
  /\ UNCHANGED <<avars, svars>>

----------------------------------------------------------------------------
(* The caller of the kis_api client *)

ApiLast(op, w) ==
  [task |-> "api", op |-> op, frame |-> w.rcvd, conn |-> w.conn, ret |-> w.ret,
   reqs |-> w.reqs, yielded |-> NoEvent, removed |-> {}, data |-> w.data, guarded |-> w.guarded,
   why |-> "none", reply |-> NoFrame, tclose |-> w.tclose, issuer |-> "none",
   keyed |-> NoFrame]

(* the environment's answers to one step: whether the transport opens,    *)
(* the reply to connect()'s account-channel request (reply) and to the     *)
(* caller's own request (reply2); only the answers that are asked for vary *)
ApiEnv == [open : BOOLEAN, reply : ApiReplies, reply2 : ApiReplies]
CallEnv(op) ==
  {e \in ApiEnv : IF op = "connect" THEN e.reply2 = RAISE /\ (~e.open => e.reply = RAISE)
                                    ELSE e.open /\ e.reply = RAISE}
ResumeEnv(w) ==
  {e \in ApiEnv : /\ ~e.open => e.reply = RAISE
                  /\ (acall[1] = "connect" \/ ~connect(w, e).ret) => e.reply2 = RAISE}

(* the world after a step becomes the state *)
ApiCommit(op, w, stack) ==
  /\ api' = w.c
  /\ aopens' = w.opens
  /\ acall' = IF w.st = "sleep" THEN stack ELSE <<>>
  /\ last' = ApiLast(op, w)

(* the method called, up to its end or to its first sleep *)
called(op, w, e) ==
  IF w.st = "sleep" \/ op = "connect" THEN w ELSE after_ensure(op, w, w.ret, e.reply2)

(* a public method is called and runs to its end or to its first sleep *)
ApiCall ==
  /\ acall = <<>>
  /\ \E op \in ApiOps :
     \E e \in CallEnv(op) :
       ApiCommit(op,
                 called(op, IF op = "connect" THEN connect(ApiWorld, e)
                                              ELSE ensure_connection(ApiWorld), e),
                 <<op>>)
  /\ UNCHANGED <<now, svars, vvars>>

(* connect() has returned to the ensure_connection that awaited it, or is  *)
(* itself suspended                                                        *)
resumed(stack, w, e) ==
  IF w.st = "sleep" THEN w ELSE unwind(stack, w, e.reply2)

(* lines 91-92: the sleep is over and ensure_connection awaits connect() *)
ApiResume ==
  /\ acall # <<>>
  /\ \E e \in ResumeEnv(ApiWorld) :
       ApiCommit(acall[1], resumed(acall, connect(ApiWorld, e), e),
                 Append(acall, "connect"))
  /\ UNCHANGED <<now, svars, vvars>>

(* vi_strategy.py 90-98: stop() awaits disconnect(), whatever the caller is doing *)
ApiClose ==
  /\ LET w == close(ApiWorld) IN
       /\ api' = w.c
       /\ last' = ApiLast("close", w)
  /\ UNCHANGED <<now, svars, vvars, acall, aopens>>

(* the connection is lost *)
ApiBreak ==
  /\ api.websocket = "open"
  /\ api' = [api EXCEPT !.websocket = "dead"]
  /\ last' = EnvLast("break")
  /\ UNCHANGED <<now, svars, vvars, acall, aopens>>

TickApi == Advance(ApiPoints)

NextApi == ApiCall \/ ApiResume \/ ApiClose \/ ApiBreak \/ TickApi

SpecApi == InitApi /\ [][NextApi]_vars

(* asyncio.sleep(_reconnect_delay) returns: the suspended call is resumed. *)
(* The client is built with the valid credential: it tests neither the     *)
(* token's expiry nor the approval key.                                    *)
ApiFairness == WF_vars(ApiResume)
SpecApiFair == InitTrack /\ [][NextApi]_vars /\ ApiFairness

----------------------------------------------------------------------------
(* The caller of the strategy *)

(* await strategy.start() *)
StratStart ==
  /\ strat.inits < MaxHooks
  /\ \E ok \in BOOLEAN :
       strat' = Observed("start", strat.s, start(StratWorld(strat.s), ok),
                         strat.inits, strat.cleanups)
  /\ last' = EnvLast("start")
  /\ UNCHANGED <<now, vvars, avars>>

(* await strategy.stop() *)
StratStop ==
  /\ strat.cleanups < MaxHooks
  /\ \E ok \in BOOLEAN :
       strat' = Observed("stop", strat.s, stop(StratWorld(strat.s), ok),
                         strat.inits, strat.cleanups)
  /\ last' = EnvLast("stop")
  /\ UNCHANGED <<now, vvars, avars>>

NextStrategy == StratStart \/ StratStop

SpecStrategy == InitStrategy /\ [][NextStrategy]_vars

----------------------------------------------------------------------------
NextVI ==
  \/ LoopBreak \/ LoopEnd \/ LoopWake \/ LoopConnect \/ LoopRecv
  \/ MonitorRound \/ MonitorConnectResume
  \/ Shutdown \/ ShutdownEnd
  \/ Tick \/ Break

SpecVI == InitVI /\ [][NextVI]_vars

(* the receive loop alone, under the fine clock *)
NextTrack ==
  \/ LoopBreak \/ LoopEnd \/ LoopWake \/ LoopConnect \/ LoopRecv
  \/ TickFine \/ Break

SpecTrack == InitTrack /\ [][NextTrack]_vars

(* The receive loop when no transport opens.  A task that can run is run:   *)
(* a sleep ends and the coroutine is resumed.  The loop breaks here only   *)
(* once shutdown() has run, so the shutdown() after the loop returns at    *)
(* once and its sleep(1) (LoopEnd) is never entered.                       *)
NextGiveUp ==
  \/ LoopBreak \/ LoopWake \/ LoopConnectFailing \/ LoopRecv
  \/ Shutdown \/ ShutdownEnd \/ Tick
LoopFairness ==
  /\ WF_vars(LoopBreak) /\ WF_vars(LoopWake)
  /\ WF_vars(LoopConnectFailing) /\ WF_vars(LoopRecv)
SpecGiveUp == InitVI /\ [][NextGiveUp]_vars /\ LoopFairness

----------------------------------------------------------------------------
(* Properties *)

Sent(reqs) == {reqs[i] : i \in 1..Len(reqs)}
Tracked == DOMAIN vi.vi_triggered_stocks

(* C1: every connect() that succeeds is followed, in the same step, by the *)
(* requests for the account channel, then the volatility-trigger channel,  *)
(* then one trade channel for every symbol of vi_triggered_stocks,         *)
(* whichever task (receive loop or connection monitor) connected.          *)
C1_ResubscribedAfterReconnect ==
  last.conn = "ok" =>
    /\ Len(last.reqs) >= 2
    /\ last.reqs[1] = hts_channel(vi)
    /\ last.reqs[2] = Chan(REALTIME_TR, "")
    /\ \A s \in Tracked : \E i \in 3..Len(last.reqs) : last.reqs[i] = Chan(TRADE_TR, s)

(* C2: with the cap of 3, no 4th transport open follows 3 connection       *)
(* attempts that failed in a row.                                          *)
C2_NoFourthOpen == opens <= MAX_RETRY_COUNT

(* C3: connect() called while _is_connecting is set returns False, is not  *)
(* suspended, opens no transport and leaves every field as it was.         *)
C3_GuardedConnectIsNoOp ==
  api._is_connecting =>
    \A e \in ApiEnv :
      /\ connect(ApiWorld, e).c = api
      /\ connect(ApiWorld, e).ret = FALSE
      /\ connect(ApiWorld, e).st = "run"
      /\ connect(ApiWorld, e).opens = aopens

(* a connect() has returned at its guard, inside the step that resumed the *)
(* ensure_connection awaited by an outer connect()                         *)
C3_Witness == last.task = "api" /\ last.guarded /\ ~last.ret

(* C4: a trigger for a symbol that already has an entry leaves the entry's *)
(* timestamp as it was and sends no trade subscription for the symbol.     *)
C4_TriggerOnce ==
  [][(/\ last'.task = "loop"
      /\ last'.yielded.kind = "vi"
      /\ last'.yielded.sym \in Tracked)
     => /\ vi'.vi_triggered_stocks[last'.yielded.sym] = vi.vi_triggered_stocks[last'.yielded.sym]
        /\ Chan(TRADE_TR, last'.yielded.sym) \notin Sent(last'.reqs)]_vars

(* C5: an entry of vi_triggered_stocks disappears only in a step of the    *)
(* receive loop that handles a trade tick for the entry's symbol, received *)
(* more than 120 seconds after the entry's timestamp.                      *)
C5_OnlyLateTickRemoves ==
  [][\A s \in Tracked :
       s \notin DOMAIN vi'.vi_triggered_stocks =>
         /\ last'.task = "loop"
         /\ last'.op = "recv"
         /\ last'.yielded.kind = "trade"
         /\ last'.yielded.sym = s
         /\ last'.removed = {s}
         /\ now' - vi.vi_triggered_stocks[s] > TRIGGER_WINDOW]_vars

(* a late trade tick has removed an entry *)
C5_Witness == last.task = "loop" /\ last.yielded.kind = "trade" /\ last.removed # {}

(* C6: a trade tick for a symbol whose entry was made at t0 removes the    *)
(* entry when handled at t0+130, and leaves it as it was when handled at   *)
(* t0+90 and at exactly t0+120: the entry goes iff more than 120 seconds   *)
(* have passed.                                                            *)
C6_WindowBoundary ==
  [][(/\ last'.task = "loop"
      /\ last'.op = "recv"
      /\ last'.yielded.kind = "trade"
      /\ last'.yielded.sym \in Tracked)
     => LET s == last'.yielded.sym
            elapsed == now - vi.vi_triggered_stocks[s]
            kept == /\ s \in DOMAIN vi'.vi_triggered_stocks
                    /\ vi'.vi_triggered_stocks[s] = vi.vi_triggered_stocks[s]
        IN /\ elapsed = 130 => ~kept
           /\ elapsed = 90 => kept
           /\ elapsed = 120 => kept
           /\ kept <=> elapsed <= TRIGGER_WINDOW]_vars

(* a trade tick was handled exactly 120 seconds after the entry was made,  *)
(* and the entry is there                                                  *)
C6_Witness ==
  /\ last.task = "loop"
  /\ last.yielded.kind = "trade"
  /\ last.yielded.sym \in Tracked
  /\ now - vi.vi_triggered_stocks[last.yielded.sym] = TRIGGER_WINDOW

(* C7: every symbol of vi_triggered_stocks has its trade channel           *)
(* requested and acknowledged on the current transport.                    *)
C7_ActiveHasOpenSubscription ==
  \A s \in Tracked : Chan(TRADE_TR, s) \in subs

(* C8: a heartbeat frame (the literal token) received by the receive loop  *)
(* or given to _process_response sets the last-heartbeat timestamp to the  *)
(* time of receipt and gives no event and no payload.                      *)
C8_HeartbeatUpdatesLiveness ==
  (last.frame = FrameId("PINGPONG", "") /\ last.task \in {"loop", "api"}) =>
    /\ IF last.task = "loop" THEN vi.last_pong = now ELSE api._last_pong = now
    /\ last.yielded = NoEvent
    /\ last.data \in {"none", "empty"}

(* C9: a data frame with fewer than 4 fields gives no event, leaves        *)
(* websocket, closed, last_pong, retry_count and vi_triggered_stocks as    *)
(* they were, and the loop goes on to its next recv().                     *)
C9_ShortFrameIsSkipped ==
  [][(/\ last'.task = "loop"
      /\ last'.op = "recv"
      /\ IsRealtime(Raw(last'.frame))
      /\ Len(Raw(last'.frame).pipe) < 4)
     => /\ last'.yielded = NoEvent
        /\ vi'.websocket = vi.websocket
        /\ vi'.closed = vi.closed
        /\ vi'.last_pong = vi.last_pong
        /\ vi'.vi_triggered_stocks = vi.vi_triggered_stocks
        /\ loop'.retry_count = loop.retry_count
        /\ loop'.pc = "run"]_vars

(* the receive loop has handled a data frame of 3 fields *)
C9_Witness == last.task = "loop" /\ last.op = "recv" /\ last.frame = FrameId("MALFORMED", "")

(* C10: subscribe_vi_stock() returns True when the reply has rt_cd "0",    *)
(* and returns False, with no payload, when the reply has rt_cd "1",       *)
(* whatever the reply's header.tr_id.                                      *)
C10_SubscribeFollowsReturnCode ==
  (/\ last.task = "api"
   /\ last.op = "subscribe_vi_stock"
   /\ last.reqs # <<>>
   /\ last.reqs[Len(last.reqs)] = Chan(REALTIME_TR, "0001")
   /\ last.frame # NoFrame
   /\ IsJson(Raw(last.frame)))
  => /\ Raw(last.frame).rt_cd = "0" => last.ret
     /\ Raw(last.frame).rt_cd = "1" => ~last.ret /\ last.data = "none"

(* C11: a PINGPONG frame read by subscribe() while it awaits its           *)
(* acknowledgement updates the keepalive timestamp and is not taken for    *)
(* the acknowledgement: the subscription does not report success.          *)
C11_HeartbeatIsNotAck ==
  (last.task = "loop" /\ last.reply = FrameId("PINGPONG", ""))
  => /\ vi.last_pong = now
     /\ ~last.ret

(* the frame is a JSON control frame, not a heartbeat, with rt_cd "0" *)
IsControlAck(f) ==
  /\ f \notin {NoFrame, RAISE}
  /\ IsJson(Raw(f))
  /\ Raw(f).tr_id # "PINGPONG"
  /\ Raw(f).rt_cd = "0"

(* C12: connect() returns True only when the reply to its account-channel  *)
(* request was a control frame with rt_cd "0"; a heartbeat, a real-time    *)
(* data frame or an error-coded reply never makes it return True.          *)
C12_ConnectNeedsAck ==
  (last.task = "api" /\ last.op = "connect" /\ last.ret) => IsControlAck(last.frame)

(* C13: whenever connect() returns False because the transport did not     *)
(* open or because the account-channel subscription failed, the transport  *)
(* handle is None after the call.                                          *)
C13_FailedConnectDropsHandle ==
  (/\ last.task \in {"loop", "monitor"}
   /\ last.op = "connect"
   /\ last.conn = "fail"
   /\ last.why \in {"open", "reply", "torn"})
  => vi.websocket = "none"

(* C14: whenever connect() returns True the reconnect-attempt counter is 0 *)
(* and the closed flag is False, also when connect() runs after a failure  *)
(* or after shutdown() had set the flag.                                   *)
C14_ConnectedMeansReset ==
  (/\ last.task \in {"loop", "monitor"}
   /\ last.op = "connect"
   /\ last.conn = "ok")
  => /\ ~vi.closed
     /\ last.task = "loop" => loop.retry_count = 0

(* states of the base client on which shutdown() is applied twice *)
ShutdownInputs ==
  {[vi EXCEPT !.closed = cl, !.shutdown_event = cl, !.websocket = ws,
              !.vi_triggered_stocks = IF tr THEN Put(@, AnySym, StartTime) ELSE @] :
     cl \in BOOLEAN, ws \in {"none", "open", "dead"}, tr \in BOOLEAN}

(* the second of two calls changed no field and called neither             *)
(* websocket.close() nor _save_account_info()                              *)
SecondIsNoOp(w1, w2) ==
  /\ w2.c = w1.c
  /\ ~w2.tclose
  /\ ~w2.saved

(* C15: close() and shutdown() are idempotent: a second call on a closed   *)
(* connection closes no transport, persists nothing and changes no field,  *)
(* so the state after two calls is the state after one.                    *)
C15_CloseTwiceIsCloseOnce ==
  /\ api._closed => close(ApiWorld) = ApiWorld
  /\ close([ApiWorld EXCEPT !.c = close(ApiWorld).c]).c = close(ApiWorld).c
  /\ ~close([ApiWorld EXCEPT !.c = close(ApiWorld).c]).tclose
  /\ \A c \in ShutdownInputs :
       /\ SecondIsNoOp(shutdown([World EXCEPT !.c = c]),
                       shutdown([World EXCEPT !.c = shutdown([World EXCEPT !.c = c]).c]))
       /\ c.closed => SecondIsNoOp([World EXCEPT !.c = c], shutdown([World EXCEPT !.c = c]))

(* close() was called on a client whose _closed was set while the          *)
(* transport was still held                                                *)
C15_Witness ==
  /\ last.task = "api" /\ last.op = "close"
  /\ api._closed /\ api.websocket # "none"

(* C16: after any close() of the kis_api client returns, the transport     *)
(* handle is None, from every state close() can be called in.              *)
C16_CloseDropsHandle ==
  (last.task = "api" /\ last.op = "close") => api.websocket = "none"

(* C17: close() of the kis_api client leaves the reconnect-attempt         *)
(* counter, the credential with its approval key, and the captured AES     *)
(* key and IV as they were.                                                *)
C17_CloseKeepsCounterAndKeys ==
  [][(last'.task = "api" /\ last'.op = "close")
     => /\ api'._reconnect_attempts = api._reconnect_attempts
        /\ api'._aes_key = api._aes_key
        /\ api'._aes_iv = api._aes_iv
        /\ api'.approval_key = api.approval_key
        /\ api'.access_token_expired = api.access_token_expired
        /\ api'.is_live = api.is_live]_vars

(* close() has closed the transport of a client that holds AES key         *)
(* material                                                                *)
C17_Witness ==
  /\ last.task = "api" /\ last.op = "close" /\ last.tclose
  /\ api._aes_key = "key" /\ api._aes_iv = "iv"

(* C18: after shutdown() has completed, the trigger-state map              *)
(* vi_triggered_stocks is empty.                                           *)
C18_ShutdownEmptiesTracked ==
  (last.op \in {"shutdown_end", "loop_end"}) => Tracked = {}

(* C19: once shutdown() has been invoked, from any task and at any         *)
(* suspension point, the session stays closed and the transport handle     *)
(* stays None in every later state: no task opens a transport or sends a   *)
(* request, and the event sequence yields no further event.                *)
C19_ShutdownIsFinal ==
  vi.closed => /\ vi.shutdown_event
               /\ vi.websocket = "none"
               /\ last.reqs = <<>>
               /\ last.yielded = NoEvent

(* C20: a connect() called when the credential's token has expired is      *)
(* refused: it returns False, opens no transport and sends no frame.       *)
C20_ExpiredTokenRefusesConnect ==
  (/\ last.task = "api"
   /\ last.op = "connect"
   /\ now >= api.access_token_expired)
  => /\ ~last.ret
     /\ last.reqs = <<>>
     /\ last.conn # "ok"

(* C21: every subscribe or unsubscribe request that is sent carries a      *)
(* non-empty approval key: none is sent while the credential's approval    *)
(* key is absent.                                                          *)
C21_RequestCarriesApprovalKey ==
  (last.task = "api" /\ last.reqs # <<>>) => api.approval_key

(* the step is a connect() of the base client called from its start *)
ConnectCalled(l) ==
  /\ l.task \in {"loop", "monitor"}
  /\ l.op = "connect"
  /\ l.why # "expired"

(* C22: at a connect() without approval key, a failure of the key issuer   *)
(* makes connect() return False without opening a transport; a successful  *)
(* issuance stores the key, and a failure to save it afterwards does not   *)
(* make connect() fail.  With the key present the issuer is not called.    *)
C22_KeyIssuance ==
  [][/\ (last'.issuer = "failed")
        => /\ ConnectCalled(last') /\ last'.conn = "fail" /\ last'.why = "no_key"
           /\ ~vi.approval_key /\ ~vi'.approval_key
           /\ vi'.websocket = vi.websocket /\ opens' = opens /\ last'.reqs = <<>>
     /\ (last'.issuer \in {"issued", "issued_unsaved"})
        => /\ ConnectCalled(last') /\ ~vi.approval_key /\ vi'.approval_key
           /\ last'.why \in {"none", "open", "reply", "torn"}
     /\ (last' # last /\ ConnectCalled(last') /\ vi.approval_key) => last'.issuer = "none"]_vars

(* connect() has returned True after a key issuance whose save raised *)
C22_Witness ==
  /\ last.task = "loop" /\ last.op = "connect"
  /\ last.issuer = "issued_unsaved"
  /\ last.conn = "ok"
  /\ vi.approval_key

(* C23: when ensure_connection() finds no live connection and the attempt  *)
(* counter has reached _max_reconnect_attempts, it returns False, calls no *)
(* connect() and leaves the counter as it is; the counter goes back to 0   *)
(* only through a connect() that succeeds.                                 *)
C23_GiveUpKeepsCounter ==
  /\ []((/\ api.websocket = "none" \/ api._closed
         /\ api._reconnect_attempts >= _max_reconnect_attempts)
        => /\ ~ensure_connection(ApiWorld).ret
           /\ ensure_connection(ApiWorld).st = "run"
           /\ ensure_connection(ApiWorld).c = api
           /\ ensure_connection(ApiWorld).opens = aopens
           /\ ensure_connection(ApiWorld).reqs = <<>>)
  /\ [][api'._reconnect_attempts < api._reconnect_attempts
        => /\ api'._reconnect_attempts = 0
           /\ last'.conn = "ok"]_vars

(* check_connection() has returned False at once, the counter at its       *)
(* maximum                                                                 *)
C23_Witness ==
  /\ last.task = "api" /\ last.op = "check_connection"
  /\ ~last.ret /\ last.conn = "none" /\ acall = <<>>
  /\ api._reconnect_attempts = _max_reconnect_attempts

(* ensure_connection() is called on a connection that is held and not      *)
(* closed, the last heartbeat at least _ping_timeout ago                   *)
SilentConnection ==
  /\ api.websocket # "none" /\ ~api._closed
  /\ now - api._last_pong >= _ping_timeout

(* C24: when ensure_connection() runs on a live connection whose last      *)
(* heartbeat is at least the silence window ago, the connection is marked  *)
(* closed and the reconnect path is entered as for a failed probe; that    *)
(* call never returns True without a connect() that succeeded; and a probe *)
(* is sent only when _ping_interval has passed since the last one.         *)
C24_SilenceIsFailedProbe ==
  /\ [](SilentConnection
        => /\ ensure_connection(ApiWorld).c._closed
           /\ ~ensure_connection(ApiWorld).c._is_subscribed
           /\ ensure_connection(ApiWorld).st = "sleep" \/ ~ensure_connection(ApiWorld).ret
           /\ ensure_connection(ApiWorld) \in
                {connection_down(ApiWorld),
                 connection_down([ApiWorld EXCEPT !.c._last_ping = now])})
  /\ [](ensure_connection(ApiWorld).c._last_ping # api._last_ping
        => now - api._last_ping >= _ping_interval)
  /\ [][(acall # <<>> /\ last'.ret) => last'.conn = "ok"]_vars

(* check_connection() has sent its probe, found the heartbeat too old,     *)
(* marked the connection closed and is suspended before its reconnect      *)
C24_Witness ==
  /\ last.task = "api" /\ last.op = "check_connection"
  /\ acall = <<"check_connection">>
  /\ api._closed /\ api.websocket = "open" /\ ~api._is_subscribed
  /\ api._last_ping = now
  /\ now - api._last_pong >= _ping_timeout

C26_CapDoesNotShutDown ==
  (/\ last.task = "loop" /\ last.op = "break"
   /\ loop.retry_count >= MAX_RETRY_COUNT
   /\ sig.pc = "armed")
  => ~vi.closed /\ ~vi.shutdown_event

(* C27: a well-formed data frame of the volatility-trigger TR yields one   *)
(* event whose symbol, time and price are payload fields 0, 1 and 2; one   *)
(* of the trade TR yields one event whose symbol, price and cumulative     *)
(* volume are payload fields 0, 2 and 13; the event of a frame is yielded  *)
(* before the next frame is received.                                      *)
C27_EventFields ==
  (last.task = "loop" /\ last.op = "recv" /\ last.frame.k \in {"VI", "TRADE"})
  => /\ last.frame.k = "VI" => last.yielded = Event("vi", last.frame.s, 1, 2)
     /\ last.frame.k = "TRADE" => last.yielded = Event("trade", last.frame.s, 2, 13)
     /\ Raw(last.frame).pipe[4][1] = last.yielded.sym
     /\ loop.pc = "ready"

(* the loop has yielded the event of a trade frame for the second symbol *)
C27_Witness ==
  /\ last.task = "loop" /\ last.op = "recv"
  /\ last.frame = FrameId("TRADE", "000660")
  /\ last.yielded.kind = "trade" /\ last.yielded.sym = "000660"

(* C28: a data frame of 4 fields or more whose tr_id is neither the        *)
(* volatility-trigger TR nor the trade TR is passed on to the consumer as  *)
(* an event that keeps its flag, tr_id and payload.                        *)
C28_UnknownTrPassedThrough ==
  (/\ last.task = "loop" /\ last.op = "recv"
   /\ last.frame.k = "UNKNOWN_TR")
  => /\ last.yielded # NoEvent
     /\ last.yielded.sym = last.frame.s

(* C29: the AES key and IV are set only from a success acknowledgement     *)
(* (rt_cd "0") of the account channel, and then hold that frame's key and  *)
(* iv: a frame with an error code never sets them.                         *)
C29_KeyOnlyFromSuccessAck ==
  last.keyed # NoFrame
  => /\ IsJson(Raw(last.keyed))
     /\ Raw(last.keyed).hdr
     /\ Raw(last.keyed).tr_id \in {HTS_TR, HTS_TR_PAPER}
     /\ Raw(last.keyed).rt_cd = "0"
     /\ Raw(last.keyed).output = "keyiv"
     /\ vi.aes_key = "key" /\ vi.aes_iv = "iv"

(* C30: connect() never executes in two tasks at once.  A monitor's        *)
(* connect() is in progress while it is suspended in its sleep(1)          *)
(* (monitors.conn counts them): no second monitor is suspended there,      *)
(* and the receive loop runs no connect() meanwhile.                       *)
C30_ConnectNeverOverlaps ==
  /\ monitors.conn <= 1
  /\ (last.task = "loop" /\ last.op = "connect") => monitors.conn = 0

(* C31: no opened transport is ever replaced without having been closed:   *)
(* connect() closes the transport that is still open before it opens a     *)
(* new one, so at most one transport is open at any time.                  *)
C31_NoTransportReplacedUnclosed == leaked = 0

(* the transport opens and the gateway acknowledges the account channel *)
AckedEnv == [open |-> TRUE, reply |-> FrameId("ACK_HTS", ""), reply2 |-> RAISE]

(* the sleep of the innermost ensure_connection of stack is over: the     *)
(* step of ApiResume from the fields c and n opens, under the answers e    *)
resume_with(c, n, stack, e) ==
  resumed(stack, connect([ApiWorld EXCEPT !.c = c, !.opens = n], e), e)

resume_acked(c, n, stack) == resume_with(c, n, stack, AckedEnv)

(* C32: an ensure_connection() called on a connection marked closed by a   *)
(* failed probe, a silence or a receive error (the handle is still there), *)
(* with the counter below the cap, returns True and leaves the session     *)
(* connected once the transport opens and the gateway acknowledges the     *)
(* account channel.                                                        *)
C32_ReconnectFromClosedSucceeds ==
  (/\ last.task = "api" /\ last.op = "check_connection"
   /\ acall = <<"check_connection">> /\ api._closed /\ api.websocket # "none")
  => LET w1 == resume_acked(api, aopens, acall)
         w2 == IF w1.st = "sleep"
                 THEN resume_acked(w1.c, w1.opens, Append(acall, "connect"))
                 ELSE w1
     IN /\ w2.st = "run" /\ w2.ret
        /\ w2.c.websocket = "open" /\ ~w2.c._closed

(* the answers to the connect() of a reconnect *)
AttemptEnv == {e \in ApiEnv : e.reply2 = RAISE /\ (~e.open => e.reply = RAISE)}

(* C33: a reconnect attempt started by a top-level ensure_connection()     *)
(* counts once and opens one transport.  The attempt is suspended in its   *)
(* sleep, already counted; run to its end under any answers, it has opened *)
(* one transport and the counter is as it was, or 0 after a success.       *)
C33_AttemptCountsOnceOpensOnce ==
  (/\ last.task = "api" /\ last.op = "check_connection"
   /\ acall = <<"check_connection">> /\ aopens < MaxOpens)
  => \A e1, e2 \in AttemptEnv :
       LET w1 == resume_with(api, aopens, acall, e1)
           w2 == IF w1.st = "sleep"
                   THEN resume_with(w1.c, w1.opens, Append(acall, "connect"), e2)
                   ELSE w1
       IN /\ w2.st = "run"
          /\ w2.opens = aopens + 1
          /\ IF w2.ret THEN w2.c._reconnect_attempts = 0
                       ELSE w2.c._reconnect_attempts = api._reconnect_attempts

(* C34: a recv() that raises in the receive loop leads to a reconnect      *)
(* attempt or to the end of the event sequence: the loop does not go on    *)
(* receiving from the same dead transport forever.                         *)
C34_RecvErrorLeadsToReconnect ==
  (last.op = "recv_error")
  ~> (last.op = "connect" \/ loop.pc = "done" \/ sig.pc = "stopped")

(* a data frame of 4 fields whose payload is too short for its parser *)
ShortPayload(f) ==
  LET m == Raw(f) IN
  /\ IsRealtime(m) /\ Len(m.pipe) >= 4
  /\ \/ m.pipe[2] = REALTIME_TR /\ Len(m.pipe[4]) < 3
     \/ m.pipe[2] = TRADE_TR /\ Len(m.pipe[4]) < 14

(* C35: a trigger frame with fewer than 3 payload fields, or a trade frame *)
(* with fewer than 14, creates and removes no entry, sends no request,     *)
(* emits no event, and the loop goes on to the next recv().                *)
C35_ShortPayloadIsDiscarded ==
  [][(last'.task = "loop" /\ last'.op = "recv" /\ ShortPayload(last'.frame))
     => /\ vi'.vi_triggered_stocks = vi.vi_triggered_stocks
        /\ last'.reqs = <<>>
        /\ last'.yielded = NoEvent
        /\ last'.removed = {}
        /\ vi'.websocket = vi.websocket /\ vi'.closed = vi.closed
        /\ loop'.pc = "run"]_vars

(* a short trade frame for a symbol whose entry a whole tick would remove *)
C35_Witness ==
  /\ last.task = "loop" /\ last.op = "recv"
  /\ last.frame = FrameId("TRADE_SHORT", AnySym)
  /\ AnySym \in Tracked
  /\ expired(vi.vi_triggered_stocks[AnySym])

(* C36: whatever becomes of the trade subscription requested on a trigger  *)
(* frame, the symbol's entry is recorded with the time of the frame, the   *)
(* trigger event is emitted and the loop goes on.                          *)
C36_TradeSubscriptionIsBestEffort ==
  (last.task = "loop" /\ last.op = "recv" /\ last.frame.k = "VI")
  => /\ last.frame.s \in Tracked
     /\ vi.vi_triggered_stocks[last.frame.s] = now
     /\ last.yielded = Event("vi", last.frame.s, 1, 2)
     /\ loop.pc = "ready"
     /\ ~vi.closed /\ ~vi.shutdown_event

(* the trade subscription was refused by the gateway *)
C36_Witness ==
  /\ last.task = "loop" /\ last.op = "recv" /\ last.frame.k = "VI"
  /\ last.reply = FrameId("ERR_TRADE", "")
  /\ ~last.ret
  /\ last.yielded # NoEvent

(* the event of a well-formed trigger or trade data frame *)
EventOf(m) ==
  IF m.pipe[2] = REALTIME_TR THEN _parse_vi_data(m.pipe[4]) ELSE _parse_trade_data(m.pipe[4])

(* C37: a well-formed data frame that recv() returns while a subscribe     *)
(* request awaits its reply is emitted as an event, not discarded as the   *)
(* reply.                                                                  *)
C37_DataFrameNotLostToAck ==
  (last.task = "loop" /\ last.reply.k \in {"VI", "TRADE"})
  => last.yielded = EventOf(Raw(last.reply))

(* C38: every call of ensure_connection() ends.  At most two calls are     *)
(* suspended at once (the caller's and the one _subscribe_hts awaits       *)
(* inside the caller's connect()), and a suspended call runs to its end.   *)
C38_EnsureConnectionTerminates ==
  /\ [](Len(acall) <= 2)
  /\ (acall # <<>>) ~> (acall = <<>>)

(* the ensure_connection() that connect() awaits is itself suspended in a  *)
(* reconnect, under the is-connecting guard                                *)
C38_Witness ==
  /\ Len(acall) = 2
  /\ acall[2] = "connect"
  /\ api._is_connecting
  /\ api._reconnect_attempts >= 2

(* C39: at most one connection-monitor task exists at any time, waiting in *)
(* its sleep or inside connect(), whatever connects and reconnects.        *)
C39_AtMostOneMonitor == monitors.ready + monitors.conn <= 1

(* C40: the lifecycle driver guards its hooks.  start() on a running       *)
(* strategy calls no hook and changes nothing; stop() on a strategy that   *)
(* is not running calls no hook; a start() whose initialize() raises       *)
(* leaves the strategy not running; a stop() of a running strategy that    *)
(* returns has called cleanup() once and left the strategy not running.    *)
C40_DriverGuardsHooks ==
  LET w == StratWorld(strat.s) IN
  /\ strat.s.is_running => \A ok \in BOOLEAN : start(w, ok) = w
  /\ ~strat.s.is_running => \A ok \in BOOLEAN : stop(w, ok).calls = <<>>
  /\ ~strat.s.is_running => start(w, FALSE).raised /\ ~start(w, FALSE).s.is_running
  /\ strat.s.is_running
     => \A ok \in BOOLEAN :
          ~stop(w, ok).raised
          => ~stop(w, ok).s.is_running /\ stop(w, ok).calls = <<"cleanup">>
  /\ strat.op = "stop" /\ strat.was_running /\ ~strat.raised
     => ~strat.s.is_running /\ strat.calls = <<"cleanup">>

(* a running strategy was stopped and stop() returned *)
C40_Witness ==
  /\ strat.op = "stop" /\ strat.was_running /\ ~strat.raised
  /\ strat.calls = <<"cleanup">>
  /\ ~strat.s.is_running
  /\ strat.inits >= 1

============================================================================
